---- MODULE Spec2Model ----
(***************************************************************************)
(* V2X connectivity simulation (class VehicleSimulation).                  *)
(*                                                                         *)
(* Lengths are integers in fifths of a pixel, so that the per-frame step   *)
(* of 0.8 px is the integer 4 and every comparison of the script is made   *)
(* in exact arithmetic.  Strings are sequences of UTF-16 code units, so    *)
(* that the script's `<` on strings is the lexicographic order.            *)
(***************************************************************************)
EXTENDS Integers, Sequences, FiniteSets, TLC

VARIABLES
    variant,           \* revision of the script the page loads
    vehicles,          \* this.vehicles, in array order
    isRunning,         \* this.isRunning
    animationId,       \* this.animationId (NoRequest for null, or a request id)
    pending,           \* requestAnimationFrame callbacks scheduled, not yet run or cancelled
    building,          \* DOM: rectangle of .building relative to the container, if present
    baseStation,       \* DOM: left/top of .base-station relative to the container
    domLinks,          \* DOM: the elements link-<id>, id -> style
    tickLinks,         \* the updateCommunicationLink calls of the last tick, in order
    alternativePaths,  \* alternativePaths of the last tick
    activeConnections, \* count handed to updateCommunicationStatus by the last tick
    status,            \* text of #status
    thrown,            \* the last handler ended in an uncaught TypeError
    age,               \* ticks executed since construction or the last reset()
    wrapped,           \* ids of the vehicles set back to startX by a tick since then
    call,              \* a single application of one of the pure methods
    player             \* the page of the playback visualizer: its globals and its schedule

vars == <<variant, vehicles, isRunning, animationId, pending, building,
          baseStation, domLinks, tickLinks, alternativePaths,
          activeConnections, status, thrown, age, wrapped, call, player>>

(* Bounds *)
MaxTicks == 1000

MaxIdLen == 2
MaxCoord == 3
MaxSize == 2
MaxRangeSteps == 12
MaxSegCoord == 2
MaxSteps == 5
MaxPending == 3

NoCall == [fn |-> "none"]
NoPlayer == [page |-> "none"]

Px(n) == 5 * n

(***************************************************************************)
(* Strings                                                                 *)
(***************************************************************************)
Dash == <<45>>
vehicle1 == <<118, 101, 104, 105, 99, 108, 101, 49>>
vehicle2 == <<118, 101, 104, 105, 99, 108, 101, 50>>
vehicle3 == <<118, 101, 104, 105, 99, 108, 101, 51>>
vehicle4 == <<118, 101, 104, 105, 99, 108, 101, 52>>
bs == <<98, 115>>

MinOf(m, n) == IF m < n THEN m ELSE n

\* a < b on strings: the first differing code unit decides; a proper prefix is smaller
StrLess(a, b) ==
    \/ \E i \in 1..MinOf(Len(a), Len(b)) :
          /\ a[i] < b[i]
          /\ \A k \in 1..(i - 1) : a[k] = b[k]
    \/ /\ Len(a) < Len(b)
       /\ \A k \in 1..Len(a) : a[k] = b[k]

\* the ids joined in call order, with no comparison
generateVehicleLinkId_CallOrder(vehicle1Id, vehicle2Id) ==
    vehicle1Id \o Dash \o vehicle2Id

\* the comparison turned round: the greater id first
generateVehicleLinkId_Descending(vehicle1Id, vehicle2Id) ==
    IF StrLess(vehicle2Id, vehicle1Id)
    THEN vehicle1Id \o Dash \o vehicle2Id
    ELSE vehicle2Id \o Dash \o vehicle1Id

generateVehicleLinkId(vehicle1Id, vehicle2Id) ==
    IF StrLess(vehicle1Id, vehicle2Id)
    THEN vehicle1Id \o Dash \o vehicle2Id
    ELSE vehicle2Id \o Dash \o vehicle1Id

BsLinkId(id) == bs \o Dash \o id

(***************************************************************************)
(* Geometry                                                                *)
(***************************************************************************)
\* t = tn / denom and u = un / denom; t >= 0 && t <= 1 && u >= 0 && u <= 1
InUnit(n, d) == IF d > 0 THEN 0 <= n /\ n <= d ELSE d <= n /\ n <= 0

\* segments on one line counted as intersecting
lineSegmentsIntersect_Collinear(x1, y1, x2, y2, x3, y3, x4, y4) ==
    LET denom == (x1 - x2) * (y3 - y4) - (y1 - y2) * (x3 - x4)
        tn == (x1 - x3) * (y3 - y4) - (y1 - y3) * (x3 - x4)
        un == 0 - ((x1 - x2) * (y1 - y3) - (y1 - y2) * (x1 - x3))
    IN  IF denom = 0 THEN tn = 0 /\ un = 0
        ELSE InUnit(tn, denom) /\ InUnit(un, denom)

lineSegmentsIntersect(x1, y1, x2, y2, x3, y3, x4, y4) ==
    LET denom == (x1 - x2) * (y3 - y4) - (y1 - y2) * (x3 - x4)
        tn == (x1 - x3) * (y3 - y4) - (y1 - y3) * (x3 - x4)
        un == 0 - ((x1 - x2) * (y1 - y3) - (y1 - y2) * (x1 - x3))
    IN  IF denom = 0 THEN FALSE
        ELSE InUnit(tn, denom) /\ InUnit(un, denom)

\* the test of the edges with the left edge left out
lineSegmentIntersectsRectangle_ThreeEdges(x1, y1, x2, y2, rectX, rectY, rectW, rectH) ==
    LET rectRight == rectX + rectW
        rectBottom == rectY + rectH
    IN  \/ lineSegmentsIntersect(x1, y1, x2, y2, rectX, rectY, rectRight, rectY)
        \/ lineSegmentsIntersect(x1, y1, x2, y2, rectRight, rectY, rectRight, rectBottom)
        \/ lineSegmentsIntersect(x1, y1, x2, y2, rectRight, rectBottom, rectX, rectBottom)

lineSegmentIntersectsRectangle(x1, y1, x2, y2, rectX, rectY, rectW, rectH) ==
    LET rectRight == rectX + rectW
        rectBottom == rectY + rectH
    IN  \/ lineSegmentsIntersect(x1, y1, x2, y2, rectX, rectY, rectRight, rectY)
        \/ lineSegmentsIntersect(x1, y1, x2, y2, rectRight, rectY, rectRight, rectBottom)
        \/ lineSegmentsIntersect(x1, y1, x2, y2, rectRight, rectBottom, rectX, rectBottom)
        \/ lineSegmentsIntersect(x1, y1, x2, y2, rectX, rectBottom, rectX, rectY)

\* the same-side precheck looking at the first endpoint only
lineIntersectsRect_FirstEndpoint(x1, y1, x2, y2, rectX, rectY, rectW, rectH) ==
    LET rectRight == rectX + rectW
        rectBottom == rectY + rectH
    IN  IF \/ x1 < rectX
           \/ x1 > rectRight
           \/ y1 < rectY
           \/ y1 > rectBottom
        THEN FALSE
        ELSE lineSegmentIntersectsRectangle(x1, y1, x2, y2, rectX, rectY, rectW, rectH)

\* the same-side precheck rejecting end points on the side lines as well
lineIntersectsRect_InclusiveReject(x1, y1, x2, y2, rectX, rectY, rectW, rectH) ==
    LET rectRight == rectX + rectW
        rectBottom == rectY + rectH
    IN  IF \/ (x1 <= rectX /\ x2 <= rectX)
           \/ (x1 >= rectRight /\ x2 >= rectRight)
           \/ (y1 <= rectY /\ y2 <= rectY)
           \/ (y1 >= rectBottom /\ y2 >= rectBottom)
        THEN FALSE
        ELSE lineSegmentIntersectsRectangle(x1, y1, x2, y2, rectX, rectY, rectW, rectH)

lineIntersectsRect(x1, y1, x2, y2, rectX, rectY, rectW, rectH) ==
    LET rectRight == rectX + rectW
        rectBottom == rectY + rectH
    IN  IF \/ (x1 < rectX /\ x2 < rectX)
           \/ (x1 > rectRight /\ x2 > rectRight)
           \/ (y1 < rectY /\ y2 < rectY)
           \/ (y1 > rectBottom /\ y2 > rectBottom)
        THEN FALSE
        ELSE lineSegmentIntersectsRectangle(x1, y1, x2, y2, rectX, rectY, rectW, rectH)

\* Math.sqrt(dx^2 + dy^2), kept squared: sqrt(s) < r iff s < r * r
calculateDistanceSq(x1, y1, x2, y2) ==
    (x2 - x1) * (x2 - x1) + (y2 - y1) * (y2 - y1)

communicationRange == Px(500)

\* the comparison of the range test turned round
Within_Beyond(distSq, range) == distSq >= range * range

\* distance < range, on squares
Within(distSq, range) == distSq < range * range

InRange(distSq) == Within(distSq, communicationRange)

\* isLineBlocked reads the rectangle of .building; with no such element the
\* read of buildingElement.getBoundingClientRect throws (IsLineBlockedThrows)
IsLineBlockedThrows(bld) == ~bld.present

isLineBlocked(bld, x1, y1, x2, y2) ==
    lineIntersectsRect(x1, y1, x2, y2, bld.x, bld.y, bld.w, bld.h)


(***************************************************************************)
(* The vehicles                                                            *)
(***************************************************************************)
Vehicle(id, startX, y, targetX, speed, direction) ==
    [id |-> id, startX |-> Px(startX), startY |-> Px(y),
     targetX |-> Px(targetX), targetY |-> Px(y),
     currentX |-> Px(startX), currentY |-> Px(y),
     speed |-> speed, direction |-> direction]

\* this.vehicles of the constructor; speed is the px per frame in fifths
\* (0.8 px = 4, 2 px = 10)
ConstructorVehicles(speed) ==
    << Vehicle(vehicle1, 1200, 180, 50, speed, -1),
       Vehicle(vehicle2, 800, 180, 50, speed, -1),
       Vehicle(vehicle3, 50, 300, 1200, speed, 1),
       Vehicle(vehicle4, 350, 300, 1200, speed, 1) >>

\* the antenna point of a vehicle: (currentX + 40, currentY + 20)
AntX(v) == v.currentX + Px(40)
AntY(v) == v.currentY + Px(20)

\* the base station point: (left + 30, top + 50)
BsX(b) == b.left + Px(30)
BsY(b) == b.top + Px(50)

(***************************************************************************)
(* animate: the motion of one frame                                        *)
(***************************************************************************)
IsUpperLane(v) == v.id = vehicle1 \/ v.id = vehicle2

SteppedX(v) ==
    IF IsUpperLane(v) THEN v.currentX - v.speed ELSE v.currentX + v.speed

\* the wrap taken on reaching the target, not on passing it
PassedTarget_OnReaching(v) ==
    IF IsUpperLane(v) THEN SteppedX(v) <= v.targetX ELSE SteppedX(v) >= v.targetX

\* no wrap at all
PassedTarget_Never(v) == FALSE

PassedTarget(v) ==
    IF IsUpperLane(v) THEN SteppedX(v) < v.targetX ELSE SteppedX(v) > v.targetX

\* a vehicle held at its target instead of set back to its start
MoveVehicle_HeldAtTarget(v) ==
    [v EXCEPT !.currentX = IF PassedTarget(v) THEN v.targetX ELSE SteppedX(v)]

\* a step that moves the vehicle down its lane as well
MoveVehicle_Drifting(v) ==
    [v EXCEPT !.currentX = IF PassedTarget(v) THEN v.startX ELSE SteppedX(v),
              !.currentY = v.currentY + v.speed]

MoveVehicle(v) ==
    [v EXCEPT !.currentX = IF PassedTarget(v) THEN v.startX ELSE SteppedX(v)]

MoveVehicles(vs) == [i \in 1..Len(vs) |-> MoveVehicle(vs[i])]

(***************************************************************************)
(* simulateV2XCommunication                                                *)
(***************************************************************************)
HasRelaySearch(var) == var = "part_002"

\* this.vehicles.find(v => v.id === 'vehicle2'): the index, 0 for undefined
\* the red car taken to be the second vehicle of the array
FindRedCar_SecondVehicle(vs) == IF Len(vs) >= 2 THEN 2 ELSE 0

FindRedCar(vs) ==
    IF \E i \in 1..Len(vs) : vs[i].id = vehicle2
    THEN CHOOSE i \in 1..Len(vs) :
            /\ vs[i].id = vehicle2
            /\ \A k \in 1..(i - 1) : vs[k].id # vehicle2
    ELSE 0

BsBlocked(bld, b, v) == isLineBlocked(bld, BsX(b), BsY(b), AntX(v), AntY(v))

VvBlocked(bld, v, w) == isLineBlocked(bld, AntX(v), AntY(v), AntX(w), AntY(w))

\* the relay accepted without the range check of its base-station hop
RelayCandidate_NoBaseStationRange(bld, b, redCar, vehicle) ==
    /\ vehicle.id # vehicle2
    /\ InRange(calculateDistanceSq(AntX(redCar), AntY(redCar), AntX(vehicle), AntY(vehicle)))
    /\ ~VvBlocked(bld, redCar, vehicle)
    /\ ~BsBlocked(bld, b, vehicle)

RelayCandidate(bld, b, redCar, vehicle) ==
    /\ vehicle.id # vehicle2
    /\ InRange(calculateDistanceSq(AntX(redCar), AntY(redCar), AntX(vehicle), AntY(vehicle)))
    /\ InRange(calculateDistanceSq(BsX(b), BsY(b), AntX(vehicle), AntY(vehicle)))
    /\ ~VvBlocked(bld, redCar, vehicle)
    /\ ~BsBlocked(bld, b, vehicle)

\* the path recording the red car, not the relay, as its relay vehicle
RelayPath_NamesRedCar(vehicle) ==
    [relayVehicle |-> vehicle2,
     links |-> << generateVehicleLinkId(vehicle2, vehicle.id), BsLinkId(vehicle.id) >>]

\* the path naming its vehicle hop with the red car first, whatever the order
RelayPath_RedCarFirst(vehicle) ==
    [relayVehicle |-> vehicle.id,
     links |-> << generateVehicleLinkId_CallOrder(vehicle2, vehicle.id),
                  BsLinkId(vehicle.id) >>]

RelayPath(vehicle) ==
    [relayVehicle |-> vehicle.id,
     links |-> << generateVehicleLinkId(vehicle2, vehicle.id), BsLinkId(vehicle.id) >>]

\* the search ended at the first relay found
findAlternativePaths_FirstOnly(bld, b, redCar, vs) ==
    LET cand == SelectSeq(vs, LAMBDA v : RelayCandidate(bld, b, redCar, v))
    IN  IF cand = << >> THEN << >> ELSE << RelayPath(cand[1]) >>

findAlternativePaths(bld, b, redCar, vs) ==
    LET cand == SelectSeq(vs, LAMBDA v : RelayCandidate(bld, b, redCar, v))
    IN  [i \in 1..Len(cand) |-> RelayPath(cand[i])]

RedCarDirectBlocked(bld, b, vs) ==
    /\ FindRedCar(vs) # 0
    /\ BsBlocked(bld, b, vs[FindRedCar(vs)])

AlternativePaths(var, bld, b, vs) ==
    IF HasRelaySearch(var) /\ RedCarDirectBlocked(bld, b, vs)
    THEN findAlternativePaths(bld, b, vs[FindRedCar(vs)], vs)
    ELSE << >>

\* the id given to the link of the pair (v, w), v before w in the array
VehicleLinkId(var, v, w) ==
    IF var = "part_002" THEN generateVehicleLinkId(v.id, w.id)
    ELSE v.id \o Dash \o w.id

\* base-station links kept to the vehicles within the communication range
BsLinks_RangeGated(bld, b, vs) ==
    LET near == SelectSeq(vs, LAMBDA v :
                    Within(calculateDistanceSq(BsX(b), BsY(b), AntX(v), AntY(v)),
                           communicationRange))
    IN  [i \in 1..Len(near) |->
            [id |-> BsLinkId(near[i].id), ends |-> <<bs, near[i].id>>,
             from |-> <<BsX(b), BsY(b)>>, to |-> <<AntX(near[i]), AntY(near[i])>>,
             blocked |-> BsBlocked(bld, b, near[i])]]

BsLinks(bld, b, vs) ==
    [i \in 1..Len(vs) |->
        [id |-> BsLinkId(vs[i].id), ends |-> <<bs, vs[i].id>>,
         from |-> <<BsX(b), BsY(b)>>, to |-> <<AntX(vs[i]), AntY(vs[i])>>,
         blocked |-> BsBlocked(bld, b, vs[i])]]

\* the pairs (i, j), i < j, in the order of the two nested loops
RECURSIVE PairsFrom(_, _, _)
PairsFrom(i, j, n) ==
    IF i >= n THEN << >>
    ELSE IF j > n THEN PairsFrom(i + 1, i + 2, n)
    ELSE << <<i, j>> >> \o PairsFrom(i, j + 1, n)

\* the inner loop starting at 0 instead of i + 1: every pair in both orders
VehiclePairs_BothOrders(vs) ==
    PairsFrom(1, 2, Len(vs)) \o
    [k \in 1..Len(PairsFrom(1, 2, Len(vs))) |->
        <<PairsFrom(1, 2, Len(vs))[k][2], PairsFrom(1, 2, Len(vs))[k][1]>>]

VehiclePairs(vs) == PairsFrom(1, 2, Len(vs))

PairWithin(vs, p, range) ==
    Within(calculateDistanceSq(AntX(vs[p[1]]), AntY(vs[p[1]]),
                               AntX(vs[p[2]]), AntY(vs[p[2]])), range)

PairInRange(vs, p) == PairWithin(vs, p, communicationRange)

\* the pairs of the double loop that pass the range test under a threshold
NearPairs(vs, range) ==
    SelectSeq(VehiclePairs(vs), LAMBDA p : PairWithin(vs, p, range))

\* the vehicle links of the double loop under a given range threshold
VvLinksWithin(var, bld, vs, range) ==
    LET near == NearPairs(vs, range)
    IN  [k \in 1..Len(near) |->
            [id |-> VehicleLinkId(var, vs[near[k][1]], vs[near[k][2]]),
             ends |-> << vs[near[k][1]].id, vs[near[k][2]].id >>,
             from |-> <<AntX(vs[near[k][1]]), AntY(vs[near[k][1]])>>,
             to |-> <<AntX(vs[near[k][2]]), AntY(vs[near[k][2]])>>,
             blocked |-> VvBlocked(bld, vs[near[k][1]], vs[near[k][2]])]]

VvLinks(var, bld, vs) == VvLinksWithin(var, bld, vs, communicationRange)

\* a link once blocked stays blocked while the pair keeps its link
TickLinks_Sticky(var, bld, b, vs) ==
    LET fresh == BsLinks(bld, b, vs) \o VvLinks(var, bld, vs)
    IN  [k \in 1..Len(fresh) |->
            [fresh[k] EXCEPT !.blocked =
                \/ fresh[k].blocked
                \/ \E h \in 1..Len(tickLinks) :
                      tickLinks[h].id = fresh[k].id /\ tickLinks[h].blocked]]

TickLinks(var, bld, b, vs) == BsLinks(bld, b, vs) \o VvLinks(var, bld, vs)

\* the count without the increment of the vehicle loop
ActiveConnections_BaseStationOnly(links) ==
    Cardinality({k \in 1..Len(links) : ~links[k].blocked /\ links[k].ends[1] = bs})

ActiveConnections(links) ==
    Cardinality({k \in 1..Len(links) : ~links[k].blocked})

\* the tick throws at its first isLineBlocked call
SimulateThrows(bld, vs) == IsLineBlockedThrows(bld) /\ Len(vs) > 0

(***************************************************************************)
(* updateCommunicationLink                                                 *)
(***************************************************************************)
\* of the style of a link element the colour (blocked) and the emphasis are
\* kept; its width, position and rotation follow the endpoints and are left out
LinkStyle(var, link, paths) ==
    [blocked |-> link.blocked,
     emphasis |->
        IF ~HasRelaySearch(var) THEN "normal"
        ELSE IF link.id = BsLinkId(vehicle2) THEN "redCar"
        ELSE IF \E k \in 1..Len(paths) :
                    \E h \in 1..Len(paths[k].links) : paths[k].links[h] = link.id
             THEN "alternativePath"
        ELSE "normal"]

\* the element link-<id> is created when missing, then restyled; no element
\* is ever removed
RECURSIVE updateCommunicationLinks(_, _, _, _)
updateCommunicationLinks(var, dom, links, paths) ==
    IF links = << >> THEN dom
    ELSE LET link == Head(links)
             styled == [id \in DOMAIN dom \cup {link.id} |->
                          IF id = link.id THEN LinkStyle(var, link, paths) ELSE dom[id]]
         IN  updateCommunicationLinks(var, styled, Tail(links), paths)


(***************************************************************************)
(* The page                                                                *)
(***************************************************************************)
NoRequest == 0

NoElement == [present |-> FALSE]

Rect(x, y, w, h) == [present |-> TRUE, x |-> x, y |-> y, w |-> w, h |-> h]

\* the building of the scene: at (300, 250), 200 wide and 100 high
SceneBuilding == Rect(Px(300), Px(250), Px(200), Px(100))

\* the base station element, whose point (left + 30, top + 50) is (400, 450)
SceneBaseStation == [left |-> Px(370), top |-> Px(400)]

\* the placements of the base station element the page is drawn from: its
\* point below the building, or below and to the right of it, at (600, 450)
BaseStations == {SceneBaseStation, [left |-> Px(570), top |-> Px(400)]}

\* requestAnimationFrame returns an id that no scheduled callback and no
\* stored handle uses
FreshRequest(pend, held) ==
    CHOOSE n \in 1..(Cardinality(pend) + 2) : n \notin pend /\ n # held

(***************************************************************************)
(* Handlers                                                                *)
(***************************************************************************)
\* the evaluation reading the vehicles while only the first two have moved
SimulatedVehicles_HalfMoved(before, after) ==
    [i \in 1..Len(after) |-> IF i <= 2 THEN after[i] ELSE before[i]]

\* the vehicles that simulateV2XCommunication reads: this.vehicles after the
\* forEach of animate has run to its end
SimulatedVehicles(before, after) == after

\* animate(), called with this.isRunning = run, the callbacks pend still
\* scheduled and the status text st
animate(run, pend, st) ==
    IF ~run
    THEN /\ pending' = pend
         /\ status' = st
         /\ thrown' = FALSE
         /\ UNCHANGED <<vehicles, animationId, domLinks, tickLinks,
                        alternativePaths, activeConnections, age, wrapped>>
    ELSE LET vs == MoveVehicles(vehicles)
             seen == SimulatedVehicles(vehicles, vs)
             paths == AlternativePaths(variant, building, baseStation, seen)
             links == TickLinks(variant, building, baseStation, seen)
             id == FreshRequest(pend, animationId)
         IN  /\ vehicles' = vs
             /\ age' = age + 1
             /\ wrapped' = wrapped \cup
                    {vehicles[i].id : i \in {k \in 1..Len(vehicles) : PassedTarget(vehicles[k])}}
             /\ IF SimulateThrows(building, seen)
                THEN /\ thrown' = TRUE
                     /\ pending' = pend
                     /\ status' = st
                     /\ UNCHANGED <<animationId, domLinks, tickLinks,
                                    alternativePaths, activeConnections>>
                ELSE /\ thrown' = FALSE
                     /\ alternativePaths' = paths
                     /\ tickLinks' = links
                     /\ domLinks' = updateCommunicationLinks(variant, domLinks, links, paths)
                     /\ activeConnections' = ActiveConnections(links)
                     /\ status' = "v2x"
                     /\ animationId' = id
                     /\ pending' = pend \cup {id}

\* a start without the return of its first line
Start_WhileRunning ==
    /\ age < MaxTicks
    /\ isRunning' = TRUE
    /\ animate(TRUE, pending, "running")
    /\ UNCHANGED <<variant, building, baseStation, call, player>>

\* start(): nothing when already running
Start ==
    /\ ~isRunning
    /\ age < MaxTicks
    /\ isRunning' = TRUE
    /\ animate(TRUE, pending, "running")
    /\ UNCHANGED <<variant, building, baseStation, call, player>>

\* the browser runs a scheduled animation-frame callback
AnimationFrame ==
    /\ age < MaxTicks
    /\ \E id \in pending : animate(isRunning, pending \ {id}, status)
    /\ UNCHANGED <<variant, isRunning, building, baseStation, call, player>>

CancelledBy(id, pend) == IF id # NoRequest THEN pend \ {id} ELSE pend

\* a stop that writes the status text and nothing else
Stop_StatusOnly ==
    /\ status' = "stopped"
    /\ UNCHANGED <<variant, vehicles, isRunning, animationId, pending, building,
                   baseStation, domLinks, tickLinks, alternativePaths,
                   activeConnections, thrown, age, wrapped, call, player>>

Stop ==
    /\ isRunning' = FALSE
    /\ pending' = CancelledBy(animationId, pending)
    /\ status' = "stopped"
    /\ thrown' = FALSE
    /\ UNCHANGED <<variant, vehicles, animationId, building, baseStation,
                   domLinks, tickLinks, alternativePaths, activeConnections,
                   age, wrapped, call, player>>

\* a reset that puts back only the vertical position
ResetVehicle_KeepX(v) == [v EXCEPT !.currentY = v.startY]

ResetVehicle(v) == [v EXCEPT !.currentX = v.startX, !.currentY = v.startY]

Reset ==
    /\ isRunning' = FALSE
    /\ pending' = CancelledBy(animationId, pending)
    /\ vehicles' = [i \in 1..Len(vehicles) |-> ResetVehicle(vehicles[i])]
    /\ status' = "reset"
    /\ thrown' = FALSE
    /\ age' = 0
    /\ wrapped' = {}
    /\ UNCHANGED <<variant, animationId, building, baseStation, domLinks,
                   tickLinks, alternativePaths, activeConnections, call, player>>

\* the state the constructor leaves, for a revision, its step and a page
Constructed(var, vs, bld, b) ==
    /\ variant = var
    /\ vehicles = vs
    /\ isRunning = FALSE
    /\ animationId = NoRequest
    /\ pending = {}
    /\ building = bld
    /\ baseStation = b
    /\ domLinks = << >>
    /\ tickLinks = << >>
    /\ alternativePaths = << >>
    /\ activeConnections = 0
    /\ status = "ready"
    /\ thrown = FALSE
    /\ age = 0
    /\ wrapped = {}

Init ==
    /\ \E bld \in {SceneBuilding, NoElement}, b \in BaseStations :
          Constructed("part_002", ConstructorVehicles(4), bld, b)
    /\ call = NoCall
    /\ player = NoPlayer

Next == Start \/ AnimationFrame \/ Stop \/ Reset

Spec == Init /\ [][Next]_vars


(***************************************************************************)
(* The earlier revision of the script: 2 px per frame, no relay search     *)
(***************************************************************************)
InitP001 ==
    /\ Constructed("part_001", ConstructorVehicles(10), SceneBuilding, SceneBaseStation)
    /\ call = NoCall
    /\ player = NoPlayer

SpecP001 == InitP001 /\ [][Next]_vars

(***************************************************************************)
(* A scene whose vehicle list holds no 'vehicle2'                          *)
(***************************************************************************)
WithoutRedCar(vs) == SelectSeq(vs, LAMBDA v : v.id # vehicle2)

InitNoRedCar ==
    /\ Constructed("part_002", WithoutRedCar(ConstructorVehicles(4)),
                   SceneBuilding, SceneBaseStation)
    /\ call = NoCall
    /\ player = NoPlayer

SpecNoRedCar == InitNoRedCar /\ [][Next]_vars

(***************************************************************************)
(* Single applications of the pure methods                                 *)
(***************************************************************************)
RECURSIVE StringsUpTo(_, _)
StringsUpTo(alphabet, n) ==
    IF n = 0 THEN {<< >>}
    ELSE LET shorter == StringsUpTo(alphabet, n - 1)
         IN  shorter \cup {Append(s, c) : s \in shorter, c \in alphabet}

\* ids: the four vehicle ids and every string of '-', '1', '2', 'v' up to MaxIdLen
Ids == {vehicle1, vehicle2, vehicle3, vehicle4} \cup StringsUpTo({45, 49, 50, 118}, MaxIdLen)

Idle ==
    /\ Constructed("part_002", ConstructorVehicles(4), SceneBuilding, SceneBaseStation)
    /\ player = NoPlayer

system == <<variant, vehicles, isRunning, animationId, pending, building,
            baseStation, domLinks, tickLinks, alternativePaths,
            activeConnections, status, thrown, age, wrapped>>

InitLinkId ==
    /\ Idle
    /\ \E a \in Ids, b \in Ids :
          call = [fn |-> "generateVehicleLinkId", a |-> a, b |-> b,
                  done |-> FALSE, out |-> << >>]

CallGenerateVehicleLinkId ==
    /\ call.fn = "generateVehicleLinkId"
    /\ ~call.done
    /\ call' = [call EXCEPT !.done = TRUE,
                            !.out = generateVehicleLinkId(call.a, call.b)]
    /\ UNCHANGED <<system, player>>

SpecLinkId == InitLinkId /\ [][CallGenerateVehicleLinkId]_vars

Coords == 0..MaxCoord

\* a call on the building of the page with a level segment through its
\* vertical span, from left of it to right of it
SceneCall ==
    [fn |-> "lineIntersectsRect",
     x1 |-> Px(0), y1 |-> Px(290), x2 |-> Px(600), y2 |-> Px(290),
     rect |-> SceneBuilding,
     done |-> FALSE, out |-> FALSE]

InitGeom ==
    /\ Idle
    /\ \/ \E x1 \in Coords, y1 \in Coords, x2 \in Coords, y2 \in Coords,
             rx \in 0..1, ry \in 0..1, rw \in 0..MaxSize, rh \in 0..MaxSize :
             call = [fn |-> "lineIntersectsRect",
                     x1 |-> x1, y1 |-> y1, x2 |-> x2, y2 |-> y2,
                     rect |-> Rect(rx, ry, rw, rh),
                     done |-> FALSE, out |-> FALSE]
       \/ call = SceneCall

CallLineIntersectsRect ==
    /\ call.fn = "lineIntersectsRect"
    /\ ~call.done
    /\ call' = [call EXCEPT !.done = TRUE,
                            !.out = lineIntersectsRect(call.x1, call.y1, call.x2, call.y2,
                                        call.rect.x, call.rect.y, call.rect.w, call.rect.h)]
    /\ UNCHANGED <<system, player>>

SpecGeom == InitGeom /\ [][CallLineIntersectsRect]_vars

\* one application of lineSegmentsIntersect to two segments with end points
\* on a small grid
SegCoords == 0..MaxSegCoord

InitSeg ==
    /\ Idle
    /\ \E x1 \in SegCoords, y1 \in SegCoords, x2 \in SegCoords, y2 \in SegCoords,
          x3 \in SegCoords, y3 \in SegCoords, x4 \in SegCoords, y4 \in SegCoords :
          call = [fn |-> "lineSegmentsIntersect",
                  x1 |-> x1, y1 |-> y1, x2 |-> x2, y2 |-> y2,
                  x3 |-> x3, y3 |-> y3, x4 |-> x4, y4 |-> y4,
                  done |-> FALSE, out |-> FALSE]

CallLineSegmentsIntersect ==
    /\ call.fn = "lineSegmentsIntersect"
    /\ ~call.done
    /\ call' = [call EXCEPT !.done = TRUE,
                            !.out = lineSegmentsIntersect(call.x1, call.y1, call.x2, call.y2,
                                        call.x3, call.y3, call.x4, call.y4)]
    /\ UNCHANGED <<system, player>>

SpecSeg == InitSeg /\ [][CallLineSegmentsIntersect]_vars

(***************************************************************************)
(* The playback visualizer (play/pause button, time slider, gameLoop)      *)
(***************************************************************************)
\* the page once loadData has resolved with a log of n steps: the first step
\* is drawn, the slider runs from 0 to n - 1, nothing plays
Loaded(n) ==
    [page |-> "visualizer",
     length |-> n,
     currentStep |-> 0,
     isPlaying |-> FALSE,
     animationFrameId |-> NoRequest,
     pending |-> {},
     slider |-> 0,
     drawn |-> 0,
     button |-> "Play"]

\* gameLoop(), on the globals p
gameLoop(p) ==
    IF ~p.isPlaying \/ p.currentStep >= p.length - 1
    THEN [p EXCEPT !.isPlaying = FALSE, !.button = "Play"]
    ELSE LET id == FreshRequest(p.pending, p.animationFrameId)
         IN  [p EXCEPT !.currentStep = p.currentStep + 1,
                       !.slider = p.currentStep + 1,
                       !.drawn = p.currentStep + 1,
                       !.animationFrameId = id,
                       !.pending = p.pending \cup {id}]

\* click on the play/pause button
PlayPauseClick ==
    /\ player.page = "visualizer"
    /\ Cardinality(player.pending) < MaxPending
    /\ player' =
          IF player.isPlaying
          THEN [player EXCEPT !.isPlaying = FALSE, !.button = "Play"]
          ELSE gameLoop([player EXCEPT
                            !.isPlaying = TRUE,
                            !.button = "Pause",
                            !.currentStep =
                                IF player.currentStep >= player.length - 1
                                THEN 0 ELSE player.currentStep])
    /\ UNCHANGED <<system, call>>

\* input on the time slider, set to step v
TimeSliderInput ==
    /\ player.page = "visualizer"
    /\ \E v \in 0..(player.length - 1) :
          player' =
              IF player.isPlaying
              THEN [player EXCEPT
                        !.currentStep = v, !.slider = v, !.drawn = v,
                        !.isPlaying = FALSE, !.button = "Play",
                        !.pending = CancelledBy(player.animationFrameId, player.pending)]
              ELSE [player EXCEPT !.currentStep = v, !.slider = v, !.drawn = v]
    /\ UNCHANGED <<system, call>>

\* the browser runs a scheduled gameLoop callback
GameLoopFrame ==
    /\ player.page = "visualizer"
    /\ \E id \in player.pending :
          player' = gameLoop([player EXCEPT !.pending = player.pending \ {id}])
    /\ UNCHANGED <<system, call>>

InitPlayer ==
    /\ Constructed("part_002", ConstructorVehicles(4), SceneBuilding, SceneBaseStation)
    /\ call = NoCall
    /\ \E n \in 1..MaxSteps : player = Loaded(n)

NextPlayer == PlayPauseClick \/ TimeSliderInput \/ GameLoopFrame

SpecPlayer == InitPlayer /\ [][NextPlayer]_vars


(***************************************************************************)
(* Properties                                                              *)
(***************************************************************************)
LinkIdCalled == call.fn = "generateVehicleLinkId" /\ call.done

\* C1: the link id of a pair of ids does not depend on the order of the two
\* arguments: generateVehicleLinkId(a, b) = generateVehicleLinkId(b, a).
LinkIdSymmetry ==
    LinkIdCalled => call.out = generateVehicleLinkId(call.b, call.a)

\* a call whose first argument is the greater id, answered with the smaller first
LinkIdSymmetryWitness ==
    /\ LinkIdCalled
    /\ StrLess(call.b, call.a)
    /\ call.out = call.b \o Dash \o call.a

\* the lexicographic order of two strings, by head and tail
RECURSIVE LexLeq(_, _)
LexLeq(a, b) ==
    \/ a = << >>
    \/ /\ b # << >>
       /\ \/ Head(a) < Head(b)
          \/ Head(a) = Head(b) /\ LexLeq(Tail(a), Tail(b))

CanonicalId(a, b) ==
    IF LexLeq(a, b) THEN a \o Dash \o b ELSE b \o Dash \o a

\* C2: the link id of a and b is min(a, b) + "-" + max(a, b) in lexicographic
\* order; the tick gives this id to the link of two vehicles with ids a and b,
\* and the relay path through a vehicle with id b has the id of (vehicle2, b)
\* as its first hop.
CanonicalLinkId ==
    LinkIdCalled =>
        /\ call.out = CanonicalId(call.a, call.b)
        /\ VehicleLinkId("part_002", [id |-> call.a], [id |-> call.b]) = CanonicalId(call.a, call.b)
        /\ RelayPath([id |-> call.b]).links[1] = CanonicalId(vehicle2, call.b)

\* the pair (vehicle4, vehicle2), given in descending order
CanonicalLinkIdWitness ==
    /\ LinkIdCalled
    /\ call.a = vehicle4
    /\ call.b = vehicle2
    /\ call.out = vehicle2 \o Dash \o vehicle4

RectCalled == call.fn = "lineIntersectsRect" /\ call.done

\* C3: lineIntersectsRect gives the same answer for a segment and for the
\* segment with its endpoints exchanged.
OcclusionSymmetry ==
    RectCalled =>
        call.out = lineIntersectsRect(call.x2, call.y2, call.x1, call.y1,
                       call.rect.x, call.rect.y, call.rect.w, call.rect.h)

\* a segment from outside a rectangle of positive area to its inside, found to cross
OcclusionSymmetryWitness ==
    /\ RectCalled
    /\ call.out
    /\ call.rect.w > 0 /\ call.rect.h > 0
    /\ call.x1 < call.rect.x
    /\ call.rect.x < call.x2 /\ call.x2 < call.rect.x + call.rect.w
    /\ call.rect.y < call.y2 /\ call.y2 < call.rect.y + call.rect.h

\* C4: for a rectangle of zero area (width 0 or height 0) lineIntersectsRect
\* answers false for every segment.
NoObstacleInvariant ==
    RectCalled /\ (call.rect.w = 0 \/ call.rect.h = 0) => ~call.out

VehicleById(id) ==
    vehicles[CHOOSE i \in 1..Len(vehicles) : vehicles[i].id = id]

\* C5 as stated: vehicle1 of the 2 px revision (start 1200, target 50) has been
\* set back to 1200 once 575 ticks have run.
WrapWithin575 ==
    age >= 575 => vehicle1 \in wrapped

\* C5: vehicle1 of the 2 px revision has been set back to 1200 once 576 ticks
\* have run; after 575 ticks it stands on its target, 50, and has not been set
\* back: passing the target (x < target), not reaching it, is what sets it back.
WrapWithin576 ==
    /\ age >= 576 => vehicle1 \in wrapped
    /\ age = 575 => VehicleById(vehicle1).currentX = Px(50) /\ vehicle1 \notin wrapped

\* the 576th tick has set vehicle1 back to 1200
WrapWithin576Witness ==
    /\ age = 576
    /\ vehicle1 \in wrapped
    /\ VehicleById(vehicle1).currentX = Px(1200)
    /\ VehicleById(vehicle1).speed = 10

TickDone == status = "v2x"

TickLinkIds == {tickLinks[k].id : k \in 1..Len(tickLinks)}

\* C6: after every tick the link elements of the page are those of the links
\* the tick produced: a link of an earlier tick that this tick did not produce
\* is gone.
StaleLinkRemoval ==
    TickDone => DOMAIN domLinks = TickLinkIds

RedCar == VehicleById(vehicle2)

HopsValid(relay) ==
    /\ calculateDistanceSq(AntX(RedCar), AntY(RedCar), AntX(relay), AntY(relay))
          < Px(500) * Px(500)
    /\ calculateDistanceSq(BsX(baseStation), BsY(baseStation), AntX(relay), AntY(relay))
          < Px(500) * Px(500)
    /\ ~isLineBlocked(building, AntX(RedCar), AntY(RedCar), AntX(relay), AntY(relay))
    /\ ~isLineBlocked(building, AntX(relay), AntY(relay), BsX(baseStation), BsY(baseStation))

\* C7: every relay path of a tick has both hops unblocked (red car to relay,
\* relay to base station) and both hops shorter than the communication range.
RelayValidity ==
    TickDone =>
        \A k \in 1..Len(alternativePaths) :
            /\ \E i \in 1..Len(vehicles) : vehicles[i].id = alternativePaths[k].relayVehicle
            /\ HopsValid(VehicleById(alternativePaths[k].relayVehicle))

\* a tick that found a relay path
RelayValidityWitness ==
    /\ TickDone
    /\ Len(alternativePaths) >= 1
    /\ HopsValid(VehicleById(alternativePaths[1].relayVehicle))

PathsThrough(id) ==
    Cardinality({k \in 1..Len(alternativePaths) : alternativePaths[k].relayVehicle = id})

RedCarBlocked ==
    isLineBlocked(building, BsX(baseStation), BsY(baseStation), AntX(RedCar), AntY(RedCar))

\* C8: in a tick in which the direct link of the red car to the base station
\* is blocked, there is exactly one relay path through every other vehicle
\* with both hops valid, and none through any other vehicle.
RelayCompleteness ==
    TickDone /\ RedCarBlocked =>
        /\ \A i \in 1..Len(vehicles) :
              PathsThrough(vehicles[i].id) =
                  IF vehicles[i].id # vehicle2 /\ HopsValid(vehicles[i]) THEN 1 ELSE 0
        /\ \A k \in 1..Len(alternativePaths) :
              \E i \in 1..Len(vehicles) : vehicles[i].id = alternativePaths[k].relayVehicle

\* the direct link blocked and exactly one other vehicle valid on both hops:
\* one relay path, through that vehicle
RelayCompletenessWitness ==
    /\ TickDone
    /\ RedCarBlocked
    /\ Cardinality({i \in 1..Len(vehicles) :
                      vehicles[i].id # vehicle2 /\ HopsValid(vehicles[i])}) = 1
    /\ Len(alternativePaths) = 1
    /\ HopsValid(VehicleById(alternativePaths[1].relayVehicle))

\* C9: with no building on the page no handler throws, and a running
\* simulation has its next frame scheduled.
MissingObstacleGraceful ==
    ~building.present => ~thrown /\ (isRunning => pending # {})

NoRedCar == \A i \in 1..Len(vehicles) : vehicles[i].id # vehicle2

\* the links of every node: a base-station link for every vehicle and a link
\* for every pair of vehicles in range
AllLinksProduced ==
    /\ \A i \in 1..Len(vehicles) : BsLinkId(vehicles[i].id) \in TickLinkIds
    /\ \A i \in 1..Len(vehicles) : \A j \in (i + 1)..Len(vehicles) :
          calculateDistanceSq(AntX(vehicles[i]), AntY(vehicles[i]),
                              AntX(vehicles[j]), AntY(vehicles[j])) < Px(500) * Px(500)
              => CanonicalId(vehicles[i].id, vehicles[j].id) \in TickLinkIds

\* the caller of a handler learns of a failure by the exception it ends in
LookupFailureSignalled == thrown

NodePoint(id) ==
    IF id = bs THEN <<BsX(baseStation), BsY(baseStation)>>
    ELSE <<AntX(VehicleById(id)), AntY(VehicleById(id))>>

\* occlusion of the segment between two nodes, from their points and the
\* rectangle of the building alone
Occluded(a, b) ==
    lineIntersectsRect(NodePoint(a)[1], NodePoint(a)[2], NodePoint(b)[1], NodePoint(b)[2],
                       building.x, building.y, building.w, building.h)

Within500(a, b) ==
    calculateDistanceSq(NodePoint(a)[1], NodePoint(a)[2], NodePoint(b)[1], NodePoint(b)[2])
        < Px(500) * Px(500)

VehicleIds == {vehicles[i].id : i \in 1..Len(vehicles)}

\* the links that the positions of the nodes and the building determine
LinksOfPositions ==
    {[id |-> BsLinkId(v), blocked |-> Occluded(bs, v)] : v \in VehicleIds}
    \cup
    {[id |-> CanonicalId(p[1], p[2]), blocked |-> Occluded(p[1], p[2])] :
        p \in {q \in VehicleIds \X VehicleIds : StrLess(q[1], q[2]) /\ Within500(q[1], q[2])}}

TickLinkFlags ==
    {[id |-> tickLinks[k].id, blocked |-> tickLinks[k].blocked] : k \in 1..Len(tickLinks)}

\* C11: the links of a tick (ids and blocked flags) and its count of active
\* connections are determined by the positions of the nodes and the building
\* at the tick, whatever ticks came before: two ticks on the same positions
\* give the same links and the same count.
TickDeterminism ==
    TickDone =>
        /\ TickLinkFlags = LinksOfPositions
        /\ activeConnections = Cardinality({l \in LinksOfPositions : ~l.blocked})

\* the first tick after a reset, on the positions of the very first tick, with
\* link elements of other ticks left on the page
TickDeterminismWitness ==
    /\ TickDone
    /\ age = 1
    /\ DOMAIN domLinks # TickLinkIds
    /\ TickLinkFlags = LinksOfPositions

\* range thresholds of 100 px to 100 * MaxRangeSteps px
Ranges == {Px(100 * k) : k \in 1..MaxRangeSteps}

\* the vehicle links that the positions of the state give under a threshold
IncludedUnder(range) ==
    LET near == NearPairs(vehicles, range)
    IN  {[id |-> VehicleLinkId(variant, vehicles[near[k][1]], vehicles[near[k][2]]),
          ends |-> << vehicles[near[k][1]].id, vehicles[near[k][2]].id >>] :
            k \in 1..Len(near)}

\* C12: for the positions of any state, every vehicle-vehicle link included
\* under a range threshold r is included under every threshold r' > r.
RangeMonotonicity ==
    \A r \in Ranges : \A r2 \in Ranges :
        r < r2 => IncludedUnder(r) \subseteq IncludedUnder(r2)

\* after a tick, a smaller threshold includes some link and the threshold of
\* the tick includes more
RangeMonotonicityWitness ==
    /\ TickDone
    /\ \E r \in Ranges :
        /\ r < communicationRange
        /\ IncludedUnder(r) # {}
        /\ IncludedUnder(r) # IncludedUnder(communicationRange)
        /\ IncludedUnder(r) \subseteq IncludedUnder(communicationRange)

\* C13: every distance and occlusion test of a tick runs on the positions
\* that the tick's motion step has produced for all vehicles: the end points
\* of every link of a completed tick are the points of its two nodes after the
\* motion, and the vehicle links are those of the pairs in range after it.
TickOrdering ==
    TickDone =>
        /\ \A k \in 1..Len(tickLinks) :
            /\ tickLinks[k].from = NodePoint(tickLinks[k].ends[1])
            /\ tickLinks[k].to = NodePoint(tickLinks[k].ends[2])
        /\ {tickLinks[k].ends : k \in 1..Len(tickLinks)} \ ({bs} \X VehicleIds)
            = {e.ends : e \in IncludedUnder(communicationRange)}

\* a completed tick in which vehicles of both lanes have moved away from
\* their start and a link joins the two lanes
TickOrderingWitness ==
    /\ TickDone
    /\ \A i \in 1..Len(vehicles) : vehicles[i].currentX # vehicles[i].startX
    /\ \E k \in 1..Len(tickLinks) :
        /\ tickLinks[k].ends = <<vehicle2, vehicle4>>
        /\ tickLinks[k].from = NodePoint(vehicle2)
        /\ tickLinks[k].to = NodePoint(vehicle4)

ResetDone == status = "reset"

\* C14: when reset() has returned, every vehicle is at its start position
\* (currentX = startX, currentY = startY) and the simulation is not running.
ResetRestoresPositions ==
    ResetDone =>
        /\ ~isRunning
        /\ \A i \in 1..Len(vehicles) :
            /\ vehicles[i].currentX = vehicles[i].startX
            /\ vehicles[i].currentY = vehicles[i].startY

\* a reset of a simulation whose vehicles had moved: the links of its last
\* tick end at points where no vehicle is any more
ResetRestoresPositionsWitness ==
    /\ ResetDone
    /\ ~isRunning
    /\ \E k \in 1..Len(tickLinks) :
        tickLinks[k].to # NodePoint(tickLinks[k].ends[2])

\* C15: when reset() has returned, no link of the last tick and no relay
\* path result is displayed any more: the page holds no link element, and so
\* none with the emphasis of a relay path.
ResetDiscardsTransient ==
    ResetDone =>
        /\ DOMAIN domLinks = {}
        /\ \A id \in DOMAIN domLinks : domLinks[id].emphasis # "alternativePath"

Sign(n) == IF n > 0 THEN 1 ELSE IF n < 0 THEN 0 - 1 ELSE 0

\* which side of the line a-b the point c is on
Side(ax, ay, bx, by, cx, cy) ==
    Sign((bx - ax) * (cy - ay) - (by - ay) * (cx - ax))

\* two segments that are not parallel cross when the ends of each are not
\* strictly on one side of the other: the crossing point of the two lines
\* then has both its parameters in [0, 1]
SegmentsCross(x1, y1, x2, y2, x3, y3, x4, y4) ==
    /\ (x2 - x1) * (y4 - y3) - (y2 - y1) * (x4 - x3) # 0
    /\ Side(x1, y1, x2, y2, x3, y3) * Side(x1, y1, x2, y2, x4, y4) <= 0
    /\ Side(x3, y3, x4, y4, x1, y1) * Side(x3, y3, x4, y4, x2, y2) <= 0

RectEdges(r) ==
    { <<r.x, r.y, r.x + r.w, r.y>>,
      <<r.x + r.w, r.y, r.x + r.w, r.y + r.h>>,
      <<r.x + r.w, r.y + r.h, r.x, r.y + r.h>>,
      <<r.x, r.y + r.h, r.x, r.y>> }

CrossesAnEdge(x1, y1, x2, y2, r) ==
    \E e \in RectEdges(r) : SegmentsCross(x1, y1, x2, y2, e[1], e[2], e[3], e[4])

SceneCalled == RectCalled /\ call.rect = SceneBuilding

\* C16: lineIntersectsRect answers true exactly when the segment crosses at
\* least one of the four edges of the rectangle, and for the obstacle at
\* (300,250) of size (200,100) and the segment (0,290)-(600,290) it answers true.
SegmentRectReference ==
    /\ RectCalled =>
        (call.out <=> CrossesAnEdge(call.x1, call.y1, call.x2, call.y2, call.rect))
    /\ SceneCalled => call.out

\* the call on the building of the page, answered true by way of its left and
\* right edges
SegmentRectReferenceWitness ==
    /\ SceneCalled
    /\ call.x1 = Px(0) /\ call.y1 = Px(290) /\ call.x2 = Px(600) /\ call.y2 = Px(290)
    /\ call.out
    /\ CrossesAnEdge(call.x1, call.y1, call.x2, call.y2, call.rect)

\* the links of the tick that join two given vehicles, in either order
LinksBetween(a, b) ==
    {k \in 1..Len(tickLinks) : tickLinks[k].ends \in {<<a, b>>, <<b, a>>}}

\* C17: after every tick, each unordered pair of vehicles whose distance is
\* strictly less than 500 px has exactly one link in the output of the tick,
\* and each pair at a distance of 500 px or more has none.
VehicleLinkRule ==
    TickDone =>
        \A a \in VehicleIds : \A b \in VehicleIds \ {a} :
            Cardinality(LinksBetween(a, b)) = IF Within500(a, b) THEN 1 ELSE 0

\* a tick with vehicle1 and vehicle3 out of range and without a link, and
\* vehicle2 and vehicle3, out of range at the start, in range and linked once
VehicleLinkRuleWitness ==
    /\ TickDone
    /\ ~Within500(vehicle1, vehicle3)
    /\ LinksBetween(vehicle1, vehicle3) = {}
    /\ Within500(vehicle2, vehicle3)
    /\ Cardinality(LinksBetween(vehicle2, vehicle3)) = 1

UnblockedBaseStationLinks ==
    {l \in TickLinkFlags : ~l.blocked /\ \E v \in VehicleIds : l.id = BsLinkId(v)}

UnblockedVehicleLinks ==
    {l \in TickLinkFlags : ~l.blocked /\ \A v \in VehicleIds : l.id # BsLinkId(v)}

\* C18: the count a tick reports is the number of the links of its output,
\* base-station links and vehicle links together, that are not blocked.
ActiveConnectionCount ==
    TickDone =>
        activeConnections =
            Cardinality(UnblockedBaseStationLinks) + Cardinality(UnblockedVehicleLinks)

\* a tick with blocked and unblocked links of both classes
ActiveConnectionCountWitness ==
    /\ TickDone
    /\ UnblockedBaseStationLinks # {}
    /\ UnblockedVehicleLinks # {}
    /\ \E k \in 1..Len(tickLinks) : tickLinks[k].blocked /\ tickLinks[k].ends[1] = bs
    /\ \E k \in 1..Len(tickLinks) : tickLinks[k].blocked /\ tickLinks[k].ends[1] # bs
    /\ activeConnections < Len(tickLinks)

BaseStationLinksOf(v) ==
    {k \in 1..Len(tickLinks) : tickLinks[k].ends = <<bs, v>>}

\* C19: after every tick, every vehicle has exactly one base-station link in
\* the output of the tick, whatever its distance to the base station, and the
\* link is blocked exactly when the building occludes the segment from the
\* base station to the vehicle.
BaseStationLinksAlways ==
    TickDone =>
        \A v \in VehicleIds :
            /\ Cardinality(BaseStationLinksOf(v)) = 1
            /\ \A k \in BaseStationLinksOf(v) :
                /\ tickLinks[k].id = BsLinkId(v)
                /\ tickLinks[k].blocked = Occluded(bs, v)

\* a tick with a vehicle 500 px or more from the base station that has an
\* unblocked base-station link, and a vehicle in range whose link is blocked
BaseStationLinksAlwaysWitness ==
    /\ TickDone
    /\ \E v \in VehicleIds :
        /\ ~Within500(bs, v)
        /\ \E k \in BaseStationLinksOf(v) : ~tickLinks[k].blocked
    /\ \E v \in VehicleIds :
        /\ Within500(bs, v)
        /\ \E k \in BaseStationLinksOf(v) : tickLinks[k].blocked

SegCalled == call.fn = "lineSegmentsIntersect" /\ call.done

\* the determinant of the two direction vectors of the call
Determinant ==
    (call.x2 - call.x1) * (call.y4 - call.y3) - (call.y2 - call.y1) * (call.x4 - call.x3)

\* C20: lineSegmentsIntersect answers false whenever the determinant of the
\* two segments is zero (parallel or collinear segments, a segment of zero
\* length included), and raises no error.
DegenerateGeometry ==
    SegCalled /\ Determinant = 0 => ~call.out /\ ~thrown

\* a level segment lying on a longer level segment, answered false
DegenerateGeometryWitness ==
    /\ SegCalled
    /\ Determinant = 0
    /\ call.y1 = call.y2 /\ call.y3 = call.y4 /\ call.y1 = call.y3
    /\ call.x3 < call.x1 /\ call.x1 < call.x2 /\ call.x2 <= call.x4
    /\ ~call.out

\* both end points of the call strictly outside the rectangle on one side
SameOuterSide ==
    \/ (call.x1 < call.rect.x /\ call.x2 < call.rect.x)
    \/ (call.x1 > call.rect.x + call.rect.w /\ call.x2 > call.rect.x + call.rect.w)
    \/ (call.y1 < call.rect.y /\ call.y2 < call.rect.y)
    \/ (call.y1 > call.rect.y + call.rect.h /\ call.y2 > call.rect.y + call.rect.h)

\* C21: for every segment and rectangle, lineIntersectsRect, with its
\* precheck, answers what the test of the four edges answers on its own.
FastRejectEquivalence ==
    RectCalled =>
        call.out = lineSegmentIntersectsRectangle(call.x1, call.y1, call.x2, call.y2,
                       call.rect.x, call.rect.y, call.rect.w, call.rect.h)

\* a call that the precheck rejects: a segment left of a rectangle of
\* positive area, slanting across the height of its top edge
FastRejectEquivalenceWitness ==
    /\ RectCalled
    /\ SameOuterSide
    /\ call.rect.w > 0 /\ call.rect.h > 0
    /\ call.x1 < call.rect.x /\ call.x2 < call.rect.x
    /\ call.y1 < call.rect.y /\ call.y2 > call.rect.y
    /\ ~call.out

\* currentX + speed * direction, and the wrap of a vehicle whose new x has
\* passed its target in the direction of its direction field
AdvancedX(v) ==
    LET x == v.currentX + v.speed * v.direction
    IN  IF (v.direction < 0 /\ x < v.targetX) \/ (v.direction > 0 /\ x > v.targetX)
        THEN v.startX
        ELSE x

\* a step that runs the motion of a tick
Ticks == age' = age + 1

\* C22: a tick sets the currentX of each vehicle to currentX + speed * direction,
\* or to startX when that value is beyond targetX in the direction of travel;
\* the direction field does not change, and the move is in its direction.
MotionStep ==
    [][Ticks =>
        /\ Len(vehicles') = Len(vehicles)
        /\ \A i \in 1..Len(vehicles) :
            /\ vehicles'[i].currentX = AdvancedX(vehicles[i])
            /\ vehicles'[i].direction = vehicles[i].direction
            /\ vehicles'[i].speed = vehicles[i].speed]_vars

\* the tick in which vehicle2, moving left from 800, has passed its target 50
\* and is back at its start, with vehicle1 moved on
MotionStepWitness ==
    /\ TickDone
    /\ age > 0
    /\ vehicle2 \in wrapped
    /\ VehicleById(vehicle2).currentX = VehicleById(vehicle2).startX
    /\ VehicleById(vehicle1).currentX = VehicleById(vehicle1).startX - age * VehicleById(vehicle1).speed

\* C23: after every tick in which the direct link of the red car to the base
\* station is not blocked, the list of relay paths is empty and no link
\* element of the page has the emphasis of an alternative path.
RelayGating ==
    TickDone /\ ~RedCarBlocked =>
        /\ alternativePaths = << >>
        /\ \A id \in DOMAIN domLinks : domLinks[id].emphasis # "alternativePath"

\* C24: no relay path of a tick has the red car or the base station as its
\* relay vehicle, and no two relay paths of a tick have the same relay vehicle.
RelayExclusion ==
    TickDone =>
        /\ \A k \in 1..Len(alternativePaths) :
            /\ alternativePaths[k].relayVehicle # vehicle2
            /\ alternativePaths[k].relayVehicle # bs
        /\ \A k \in 1..Len(alternativePaths) : \A h \in 1..Len(alternativePaths) :
            k # h => alternativePaths[k].relayVehicle # alternativePaths[h].relayVehicle

\* a tick with two relay paths, through two vehicles other than the red car
RelayExclusionWitness ==
    /\ TickDone
    /\ RedCarBlocked
    /\ Len(alternativePaths) = 2
    /\ alternativePaths[1].relayVehicle # alternativePaths[2].relayVehicle
    /\ {alternativePaths[1].relayVehicle, alternativePaths[2].relayVehicle}
          \subseteq VehicleIds \ {vehicle2}

\* the state that stop() or reset() has left
Halted == status \in {"stopped", "reset"}

\* a step of start() that takes effect
Starts == ~isRunning /\ isRunning'

\* C25: from the return of stop() or reset() until the next start(), no tick
\* runs, and the positions of the vehicles change only by a reset; the
\* animation-frame callback that was scheduled when stop() was called has
\* been cancelled.
StopHalts ==
    [][Halted /\ ~Starts =>
        /\ ~Ticks
        /\ (vehicles' = vehicles \/ status' = "reset")
        /\ pending = {}]_vars

\* stop() called while a callback was scheduled: the request id is still held
\* and its callback is off the schedule, with the vehicles away from their start
StopHaltsWitness ==
    /\ status = "stopped"
    /\ ~isRunning
    /\ animationId # NoRequest
    /\ pending = {}
    /\ age > 1
    /\ \A i \in 1..Len(vehicles) : vehicles[i].currentX # vehicles[i].startX

\* C26: in every reachable state, whatever starts, stops, resets and ticks
\* led to it, the currentY of every vehicle is its startY.
YConstant ==
    \A i \in 1..Len(vehicles) : vehicles[i].currentY = vehicles[i].startY

\* after a tick that followed a wrap, with vehicles of both lanes away from
\* their start
YConstantWitness ==
    /\ TickDone
    /\ wrapped # {}
    /\ VehicleById(vehicle1).currentX # VehicleById(vehicle1).startX
    /\ VehicleById(vehicle3).currentX # VehicleById(vehicle3).startX
    /\ VehicleById(vehicle1).currentY = Px(180)
    /\ VehicleById(vehicle3).currentY = Px(300)

\* C27: at most one animation-frame callback of animate is scheduled at any
\* time, whatever the order of start(), stop(), reset() and callbacks; it is
\* the one whose request id is held, and none is scheduled while the
\* simulation is not running.
SingleTickLoop ==
    /\ Cardinality(pending) <= 1
    /\ pending \subseteq {animationId}
    /\ ~isRunning => pending = {}

\* a running simulation, started again after a reset that followed earlier
\* ticks, with its one callback scheduled
SingleTickLoopWitness ==
    /\ isRunning
    /\ TickDone
    /\ pending = {animationId}
    /\ age = 2
    /\ DOMAIN domLinks # TickLinkIds

\* C28: in the visualizer at most one gameLoop callback is scheduled at any
\* time, whatever the order of play/pause clicks, slider inputs and callbacks.
SinglePlaybackLoop ==
    player.page = "visualizer" => Cardinality(player.pending) <= 1

MinX(v) == IF v.startX <= v.targetX THEN v.startX ELSE v.targetX

MaxX(v) == IF v.startX <= v.targetX THEN v.targetX ELSE v.startX

\* C29: in every reachable state the currentX of every vehicle lies between its
\* startX and its targetX, both included.
LaneBounds ==
    \A i \in 1..Len(vehicles) :
        /\ MinX(vehicles[i]) <= vehicles[i].currentX
        /\ vehicles[i].currentX <= MaxX(vehicles[i])

\* vehicle2 within one step of its target: the next tick takes it past the
\* target and sets it back to its start
LaneBoundsWitness ==
    /\ TickDone
    /\ VehicleById(vehicle2).currentX >= VehicleById(vehicle2).targetX
    /\ VehicleById(vehicle2).currentX - VehicleById(vehicle2).speed
          < VehicleById(vehicle2).targetX

\* the links of the tick with a given id that are not blocked
UnblockedTickLinks(id) ==
    {k \in 1..Len(tickLinks) : tickLinks[k].id = id /\ ~tickLinks[k].blocked}

\* C30: each of the two link ids of every relay path of a tick is the id of a
\* link of that tick, and that link is not blocked.
RelayHopsAreLinks ==
    TickDone =>
        \A k \in 1..Len(alternativePaths) :
            /\ Len(alternativePaths[k].links) = 2
            /\ \A h \in 1..2 :
                /\ alternativePaths[k].links[h] \in TickLinkIds
                /\ UnblockedTickLinks(alternativePaths[k].links[h]) # {}
                /\ \A n \in 1..Len(tickLinks) :
                      tickLinks[n].id = alternativePaths[k].links[h] => ~tickLinks[n].blocked

\* a tick with a relay path through vehicle1, which stands before the red car
\* in the array: its link is made for the pair (vehicle1, vehicle2) and named
\* by the path from (vehicle2, vehicle1)
RelayHopsAreLinksWitness ==
    /\ TickDone
    /\ \E k \in 1..Len(alternativePaths) :
        /\ alternativePaths[k].relayVehicle = vehicle1
        /\ alternativePaths[k].links = <<CanonicalId(vehicle1, vehicle2), BsLinkId(vehicle1)>>
        /\ UnblockedTickLinks(alternativePaths[k].links[1]) # {}
        /\ UnblockedTickLinks(alternativePaths[k].links[2]) # {}

====
